---------------------------- MODULE Spec2Model ----------------------------
(***************************************************************************)
(* A model of the clintosaurous core library: the text helpers of          *)
(* lib/python/clintosaurous/text.py (center, table, pluralize,             *)
(* expand_range, number_commas), the table builders of cgi.py (table,      *)
(* table_split), datetime.py (time_breakdown, run_time), the option        *)
(* resolution of db.py (connect), the level filter and output of log.py,   *)
(* and the lock file of file.py (lock, unlock).                            *)
(*                                                                         *)
(* A Python str is a sequence of one-character strings.  A Python value    *)
(* whose type matters (a table cell, an element of a list that may hold a  *)
(* bool) is a record [t |-> type, v |-> value].  The outcome of a call is  *)
(* a record [kind, val, exc]: a returned value, a returned None, or a      *)
(* raised exception.                                                       *)
(***************************************************************************)
EXTENDS Integers, Sequences, FiniteSets, TLC

VARIABLES
    pc,     \* "ready": the arguments are chosen; "done": the call has ended
    fn,     \* the function called
    args,   \* its arguments, as the caller passed them
    ret,    \* the outcome of the call
    rows,   \* the caller's rows list object (table mutates it in place)
    groups, \* table_split's list table_rows when the call ended
    files,  \* the files and output streams the processes share
    procs   \* what each process holds: module globals, locals, position

vars == <<pc, fn, args, ret, rows, groups, files, procs>>

---------------------------------------------------------------------------
(* Bounds of the model.                                                    *)

MaxTextLen == 5
MaxWidth == 4
MaxTableSize == 6
MaxSections == 3
MaxWordLen == 3
MaxTokens == 2
MaxRangeNum == 3
MaxNumberLen == 5
MaxSeconds == 130
MaxCalls == 2
MaxLockCalls == 2

---------------------------------------------------------------------------
(* Python values and outcomes.                                             *)

NL == "\n"

Whitespace == {" ", NL, "\t"}

Str(s) == [t |-> "str", v |-> s]

Int_(n) == [t |-> "int", v |-> n]

PyFalse == [t |-> "bool", v |-> FALSE]

List(xs) == [t |-> "list", v |-> xs]

Return(v) == [kind |-> "value", val |-> v, exc |-> ""]

ReturnNone == [kind |-> "None", val |-> <<>>, exc |-> ""]

Raise(e) == [kind |-> "raise", val |-> <<>>, exc |-> e]

NoCall == [kind |-> "pending", val |-> <<>>, exc |-> ""]

---------------------------------------------------------------------------
(* Built-in operations of Python the code uses.                            *)

Max(a, b) == IF a >= b THEN a ELSE b

\* " " * n: empty when n <= 0.
Spaces(n) == [i \in 1..n |-> " "]

\* c * n for a one-character string c.
Repeat(c, n) == [i \in 1..n |-> c]

RECURSIVE Digits(_)
Digits(n) ==
    LET d == <<"0", "1", "2", "3", "4", "5", "6", "7", "8", "9">>[(n % 10) + 1]
    IN  IF n < 10 THEN <<d>> ELSE Append(Digits(n \div 10), d)

\* str(n) of an int.
IntToStr(n) == IF n < 0 THEN <<"-">> \o Digits(-n) ELSE Digits(n)

\* str(x): a str is itself, an int its decimal digits.
PyStr(x) == IF x.t = "str" THEN x.v ELSE IntToStr(x.v)

\* s.rstrip(), and re.sub(r'\s+$', '', s) on a string without newline.
RECURSIVE RStrip(_)
RStrip(s) ==
    IF Len(s) > 0 /\ s[Len(s)] \in Whitespace
    THEN RStrip(SubSeq(s, 1, Len(s) - 1))
    ELSE s

RECURSIVE LStrip(_)
LStrip(s) ==
    IF Len(s) > 0 /\ s[1] \in Whitespace THEN LStrip(Tail(s)) ELSE s

\* s.strip()
Strip(s) == LStrip(RStrip(s))

\* s.ljust(n): s padded with spaces on the right up to the length n.
Ljust(s, n) == IF Len(s) >= n THEN s ELSE s \o Spaces(n - Len(s))

\* s.replace(old, new) for one-character strings old and new.
Replace(s, old, new) == [i \in 1..Len(s) |-> IF s[i] = old THEN new ELSE s[i]]

\* s.split(sep) for a one-character sep: the pieces between the
\* occurrences of sep, always at least one piece.
Split(s, sep) ==
    LET at == SelectSeq([i \in 1..Len(s) |-> i], LAMBDA i : s[i] = sep)
        cuts == <<0>> \o at \o <<Len(s) + 1>>
    IN  [k \in 1..(Len(cuts) - 1) |-> SubSeq(s, cuts[k] + 1, cuts[k + 1] - 1)]

\* re.split("", word): an empty piece, the characters, an empty piece.
ReSplitEmpty(word) ==
    <<(<<>>)>> \o [i \in 1..Len(word) |-> <<word[i]>>] \o <<(<<>>)>>

---------------------------------------------------------------------------
(* text.center                                                             *)

\* int(width / 2 - line_len / 2)
StartPosition(width, line_len) ==
    IF width >= line_len
    THEN (width - line_len) \div 2
    ELSE -((line_len - width) \div 2)

\* wrap=False: each line stripped and padded on its own.
RECURSIVE CenterNoWrap(_, _, _, _)
CenterNoWrap(split_lines, i, width, return_text) ==
    IF i > Len(split_lines) THEN return_text
    ELSE LET line == Strip(split_lines[i])
             start_point == StartPosition(width, Len(line))
         IN  CenterNoWrap(split_lines, i + 1, width,
                 return_text \o Spaces(start_point) \o line \o <<NL>>)

\* lines.append(re.sub(r'\s+$', '', line)); line = ""
Flush(st) == [line |-> <<>>, lines |-> Append(st.lines, RStrip(st.line))]

\* The loop over the characters of a word longer than width.
RECURSIVE SplitChars(_, _, _, _)
SplitChars(st, pieces, i, width) ==
    IF i > Len(pieces) THEN st
    ELSE LET line == st.line \o pieces[i]
         IN  IF Len(line) >= width
             THEN SplitChars([line |-> <<>>, lines |-> Append(st.lines, line)],
                             pieces, i + 1, width)
             ELSE SplitChars([line |-> line, lines |-> st.lines],
                             pieces, i + 1, width)

WordOverflows_NoSeparator(word_len, line_len, width) ==
    word_len + line_len > width

\* elif word_len + line_len + 1 > width
WordOverflows(word_len, line_len, width) == word_len + line_len + 1 > width

\* One iteration of the loop over text.split(" ").
WrapWord(st, word, width) ==
    LET word_len == Len(word)
        line_len == Len(st.line)
    IN  IF word_len = 0
        THEN IF line_len + 1 > width
             THEN Flush(st)
             ELSE [line |-> Append(st.line, " "), lines |-> st.lines]
        ELSE IF word_len > width
        THEN SplitChars(IF line_len > 0 THEN Flush(st) ELSE st,
                        ReSplitEmpty(word), 1, width)
        ELSE IF WordOverflows(word_len, line_len, width)
        THEN [line |-> word, lines |-> Append(st.lines, RStrip(st.line))]
        ELSE [line |-> st.line \o <<" ">> \o word, lines |-> st.lines]

RECURSIVE WrapWords(_, _, _, _)
WrapWords(st, words, i, width) ==
    IF i > Len(words) THEN st
    ELSE WrapWords(WrapWord(st, words[i], width), words, i + 1, width)

\* The list lines of center: text is the text with its newlines replaced.
WrapLines(text, width) ==
    IF Len(text) > width
    THEN LET st == WrapWords([line |-> <<>>, lines |-> <<>>],
                             Split(text, " "), 1, width)
         IN  IF Len(st.line) > 0 THEN Append(st.lines, RStrip(st.line))
             ELSE st.lines
    ELSE <<text>>

\* The final loop of center: pad return_text, then add the line.
RECURSIVE CenterLines(_, _, _, _)
CenterLines(lines, i, width, return_text) ==
    IF i > Len(lines) THEN return_text
    ELSE LET start_position == StartPosition(width, Len(lines[i]))
             padded == IF start_position > 0
                       THEN Ljust(return_text, start_position - 1)
                       ELSE return_text
         IN  CenterLines(lines, i + 1, width, padded \o lines[i] \o <<NL>>)

\* center(text, width, wrap); text is a str or an int.
Center(text_arg, width, wrap) ==
    LET text == PyStr(text_arg)
    IN  IF Len(text) = 0 THEN ReturnNone
        ELSE IF ~wrap
        THEN Return(RStrip(CenterNoWrap(Split(text, NL), 1, width, <<>>)))
        ELSE Return(RStrip(CenterLines(
                 WrapLines(Replace(text, NL, " "), width), 1, width, <<>>)))

---------------------------------------------------------------------------
(* text.table                                                              *)

PyNone == [t |-> "NoneType", v |-> <<>>]

\* The truth value of x in `if x:`.
Truthy(x) ==
    CASE x.t = "NoneType" -> FALSE
      [] x.t = "bool" -> x.v
      [] x.t = "int" -> x.v /= 0
      [] OTHER -> Len(x.v) > 0

\* row[i] = str(row[i]) for every cell of a row.
CoerceRow(row) == [i \in 1..Len(row) |-> Str(PyStr(row[i]))]

\* if col_width: col_widths.append(col_width) else: col_widths.append(1)
ColWidth(col_width) == IF col_width > 0 THEN col_width ELSE 1

Widen_KeepFirst(col_widths, i, col_width) == col_widths

\* if col_width > col_widths[i]: col_widths[i] = col_width
Widen(col_widths, i, col_width) ==
    IF col_width > col_widths[i]
    THEN [col_widths EXCEPT ![i] = col_width]
    ELSE col_widths

\* The loop over the cells of one data row (already coerced).
RECURSIVE RowWidths(_, _, _)
RowWidths(col_widths, row, i) ==
    IF i > Len(row) THEN col_widths
    ELSE LET col_width == Len(row[i].v)
         IN  RowWidths(IF Len(col_widths) <= i - 1
                       THEN Append(col_widths, ColWidth(col_width))
                       ELSE Widen(col_widths, i, col_width),
                       row, i + 1)

\* The loop over the data rows: column count and column widths.
RECURSIVE ScanRows(_, _, _)
ScanRows(st, data, r) ==
    IF r > Len(data) THEN st
    ELSE ScanRows([col_count |-> Max(st.col_count, Len(data[r])),
                   col_widths |-> RowWidths(st.col_widths, data[r], 1)],
                  data, r + 1)

RECURSIVE SumSeq(_)
SumSeq(s) == IF Len(s) = 0 THEN 0 ELSE s[1] + SumSeq(Tail(s))

\* The title banner: the top bar and one boxed line per line of center.
RECURSIVE TitleLines(_, _, _)
TitleLines(lines, i, text_width) ==
    IF i > Len(lines) THEN <<>>
    ELSE <<"|", " ">> \o lines[i] \o Spaces(text_width - Len(lines[i]))
             \o <<" ", "|", NL>> \o TitleLines(lines, i + 1, text_width)

TitleBanner(title, col_widths) ==
    LET dash_width == Len(col_widths) * 3 - 1 + SumSeq(col_widths)
        text_width == dash_width - 2
        centeredtitle == Center(title, text_width, TRUE)
    IN  <<"+">> \o Repeat("-", dash_width) \o <<"+", NL>>
            \o TitleLines(Split(centeredtitle.val, NL), 1, text_width)

RECURSIVE BreakSegments(_, _)
BreakSegments(col_widths, i) ==
    IF i > Len(col_widths) THEN <<>>
    ELSE <<"+", "-">> \o Repeat("-", col_widths[i]) \o <<"-">>
             \o BreakSegments(col_widths, i + 1)

BreakLine(col_widths) == BreakSegments(col_widths, 1) \o <<"+", NL>>

\* The cells of one rendered row; ok is FALSE when col_widths[i] raises
\* IndexError (a missing cell is caught and rendered as "").
RECURSIVE RenderCells(_, _, _, _)
RenderCells(row, col_count, col_widths, i) ==
    IF i > col_count THEN [ok |-> TRUE, txt |-> <<>>]
    ELSE IF i > Len(col_widths) THEN [ok |-> FALSE, txt |-> <<>>]
    ELSE LET value == IF i <= Len(row) THEN row[i].v ELSE <<>>
             rest == RenderCells(row, col_count, col_widths, i + 1)
         IN  [ok |-> rest.ok,
              txt |-> <<"|", " ">> \o value
                          \o Spaces(col_widths[i] - Len(value)) \o <<" ">>
                          \o rest.txt]

RenderRow(row, col_count, col_widths) ==
    LET cells == RenderCells(row, col_count, col_widths, 1)
    IN  [ok |-> cells.ok, txt |-> cells.txt \o <<"|", NL>>]

RECURSIVE RenderRows(_, _, _, _)
RenderRows(data, col_count, col_widths, r) ==
    IF r > Len(data) THEN [ok |-> TRUE, txt |-> <<>>]
    ELSE LET row == RenderRow(data[r], col_count, col_widths)
             rest == RenderRows(data, col_count, col_widths, r + 1)
         IN  [ok |-> row.ok /\ rest.ok, txt |-> row.txt \o rest.txt]

\* table(rows, title, headings): the outcome and the caller's rows after it.
Table(rows_arg, title, headings_arg) ==
    IF headings_arg /\ Len(rows_arg) = 0
    THEN [ret |-> Raise("IndexError"), rows |-> rows_arg]
    ELSE
    LET popped == IF headings_arg THEN rows_arg[1] ELSE <<>>
        has_headings == headings_arg /\ Len(popped) > 0
        headings == CoerceRow(popped)
        data == [r \in 1..(Len(rows_arg) - (IF headings_arg THEN 1 ELSE 0)) |->
                    CoerceRow(rows_arg[r + (IF headings_arg THEN 1 ELSE 0)])]
        start == IF has_headings
                 THEN [col_count |-> Len(headings),
                       col_widths |-> [i \in 1..Len(headings) |->
                                          ColWidth(Len(headings[i].v))]]
                 ELSE [col_count |-> 1, col_widths |-> <<>>]
        layout == ScanRows(start, data, 1)
        col_count == layout.col_count
        col_widths == layout.col_widths
        banner == IF Truthy(title) THEN TitleBanner(title, col_widths) ELSE <<>>
        break_line == BreakLine(col_widths)
        head == IF has_headings
                THEN RenderRow(headings, col_count, col_widths)
                ELSE [ok |-> TRUE, txt |-> <<>>]
        body == RenderRows(data, col_count, col_widths, 1)
    IN  IF head.ok /\ body.ok
        THEN [ret |-> Return(banner
                        \o (IF has_headings THEN break_line \o head.txt ELSE <<>>)
                        \o break_line \o body.txt \o break_line),
              rows |-> data]
        ELSE [ret |-> Raise("IndexError"), rows |-> data]

---------------------------------------------------------------------------
(* cgi.table and cgi.table_split.  The markup literals of the f-strings    *)
(* are single elements of the returned sequence; the characters of a       *)
(* formatted value follow one by one.                                      *)

TableOpen ==
    "\n            <div class=\"data_table\">\n            <table class=\"data_table\">\n        "

TableClose == "\n            </table>\n            </div>\n        "

HeadingRowOpen == "<tr class=\"data_table_heading\">\n"

HeadingCellOpen == "<td class=\"data_table_heading\">"

DataRowOpen == "<tr class=\"data_table_data\">\n"

DataCellOpen == "<td class=\"data_table_data\">"

CellClose == "</td>\n"

RowClose == "</tr>\n"

\* html.escape(c) of one character (quote=True).
EscapeChar(c) ==
    CASE c = "&" -> <<"&", "a", "m", "p", ";">>
      [] c = "<" -> <<"&", "l", "t", ";">>
      [] c = ">" -> <<"&", "g", "t", ";">>
      [] c = "\"" -> <<"&", "q", "u", "o", "t", ";">>
      [] c = "'" -> <<"&", "#", "x", "2", "7", ";">>
      [] OTHER -> <<c>>

\* cgi.escape(decoded): html.escape of a str.
RECURSIVE CgiEscape(_)
CgiEscape(decoded) ==
    IF Len(decoded) = 0 THEN <<>>
    ELSE EscapeChar(decoded[1]) \o CgiEscape(Tail(decoded))

PyFormat_Escaped(x) ==
    CgiEscape(CASE x.t = "str" -> x.v
                [] x.t = "int" -> IntToStr(x.v)
                [] x.t = "bool" -> IF x.v THEN <<"T", "r", "u", "e">>
                                   ELSE <<"F", "a", "l", "s", "e">>
                [] OTHER -> <<"N", "o", "n", "e">>)

\* f'{value}': a str as it is, with no escaping.
PyFormat(x) ==
    CASE x.t = "str" -> x.v
      [] x.t = "int" -> IntToStr(x.v)
      [] x.t = "bool" -> IF x.v THEN <<"T", "r", "u", "e">>
                         ELSE <<"F", "a", "l", "s", "e">>
      [] OTHER -> <<"N", "o", "n", "e">>

\* Whether `for value in x` is allowed.
Iterable(x) == x.t \in {"list", "str"}

\* The values `for value in x` yields.
Items(x) == IF x.t = "list" THEN x.v ELSE [i \in 1..Len(x.v) |-> Str(<<x.v[i]>>)]

RECURSIVE CgiCells(_, _, _)
CgiCells(values, i, cell_open) ==
    IF i > Len(values) THEN <<>>
    ELSE <<cell_open>> \o PyFormat(values[i]) \o <<CellClose>>
             \o CgiCells(values, i + 1, cell_open)

CgiRow(row, row_open, cell_open) ==
    <<row_open>> \o CgiCells(Items(row), 1, cell_open) \o <<RowClose>>

RECURSIVE CgiRows(_, _)
CgiRows(table_rows, row_num) ==
    IF row_num > Len(table_rows) THEN <<>>
    ELSE CgiRow(table_rows[row_num], DataRowOpen, DataCellOpen)
             \o CgiRows(table_rows, row_num + 1)

\* cgi.table(rows, headings)
CgiTable(table_rows, headings) ==
    IF headings /\ Len(table_rows) = 0 THEN Raise("IndexError")
    ELSE IF \E i \in 1..Len(table_rows) : ~Iterable(table_rows[i])
    THEN Raise("TypeError")
    ELSE Return(<<TableOpen>>
             \o (IF headings
                 THEN CgiRow(table_rows[1], HeadingRowOpen, HeadingCellOpen)
                 ELSE <<>>)
             \o CgiRows(table_rows, IF headings THEN 2 ELSE 1)
             \o <<TableClose>>)

\* int(a / b) for b /= 0: the float quotient truncated towards zero.
PyIntDiv(a, b) ==
    LET abs_a == IF a < 0 THEN -a ELSE a
        abs_b == IF b < 0 THEN -b ELSE b
        q == abs_a \div abs_b
    IN  IF (a < 0) = (b < 0) THEN q ELSE -q

\* a % b for b /= 0: the result has the sign of b.
PyMod(a, b) == IF b > 0 THEN a % b ELSE -((-a) % (-b))

\* One iteration of `for row in rows` of table_split.  exc is the
\* exception raised so far ("" for none).
SplitRow(st, row, rows_per_column, headings) ==
    IF st.exc /= "" THEN st
    ELSE IF st.cur_table + 1 > Len(st.table_rows)
    THEN [st EXCEPT !.exc = "IndexError"]
    ELSE LET k == st.cur_table + 1
             appended == Append(st.table_rows[k], row)
         IN  IF Len(appended) >= rows_per_column
             THEN LET table == <<headings>> \o appended
                      out == CgiTable(table, TRUE)
                  IN  [table_rows |-> [st.table_rows EXCEPT ![k] = table],
                       table |-> table,
                       out_tables |-> IF out.kind = "value"
                                      THEN Append(st.out_tables, Str(out.val))
                                      ELSE st.out_tables,
                       cur_table |-> IF out.kind = "value"
                                     THEN st.cur_table + 1 ELSE st.cur_table,
                       exc |-> out.exc]
             ELSE [st EXCEPT !.table_rows[k] = appended, !.table = appended]

RECURSIVE SplitRows(_, _, _, _, _)
SplitRows(st, rows_arg, i, rows_per_column, headings) ==
    IF i > Len(rows_arg) THEN st
    ELSE SplitRows(SplitRow(st, rows_arg[i], rows_per_column, headings),
                   rows_arg, i + 1, rows_per_column, headings)

\* The statements after the loop of table_split.
SplitFinish(st, rows_per_column, headings) ==
    IF st.exc /= "" THEN st
    ELSE IF Len(st.table) < rows_per_column
    THEN LET table == IF Truthy(headings) THEN <<headings>> \o st.table
                      ELSE st.table
             out == CgiTable(table, TRUE)
         IN  [st EXCEPT !.table = table,
                        !.out_tables = IF out.kind = "value"
                                       THEN Append(st.out_tables, Str(out.val))
                                       ELSE st.out_tables,
                        !.exc = out.exc]
    ELSE st

\* table_split(rows, headings, sections): the outcome, and the list
\* table_rows as the call leaves it.
TableSplit(rows_arg, headings_arg, sections) ==
    IF sections = 0
    THEN [ret |-> Raise("ZeroDivisionError"), table_rows |-> <<>>]
    ELSE IF headings_arg
    THEN [ret |-> Raise("UnboundLocalError"), table_rows |-> <<>>]
    ELSE
    LET total_rows == Len(rows_arg)
        rows_per_column == PyIntDiv(total_rows, sections)
            + (IF PyMod(total_rows, sections) /= 0 THEN 1 ELSE 0)
        start == [table_rows |-> [i \in 1..sections |-> <<>>],
                  table |-> <<>>,
                  out_tables |-> <<>>,
                  cur_table |-> 0,
                  exc |-> ""]
        looped == SplitRows(start, rows_arg, 1, rows_per_column, PyFalse)
        end == SplitFinish(looped, rows_per_column, PyFalse)
    IN  [ret |-> IF end.exc /= "" THEN Raise(end.exc)
                 ELSE CgiTable(<<List(end.out_tables)>>, FALSE),
         table_rows |-> end.table_rows]

---------------------------------------------------------------------------
(* text.pluralize                                                          *)

LowerLetters ==
    <<"a", "b", "c", "d", "e", "f", "g", "h", "i", "j", "k", "l", "m",
      "n", "o", "p", "q", "r", "s", "t", "u", "v", "w", "x", "y", "z">>

UpperLetters ==
    <<"A", "B", "C", "D", "E", "F", "G", "H", "I", "J", "K", "L", "M",
      "N", "O", "P", "Q", "R", "S", "T", "U", "V", "W", "X", "Y", "Z">>

IsLowerChar(c) == \E i \in 1..Len(LowerLetters) : LowerLetters[i] = c

IsUpperChar(c) == \E i \in 1..Len(UpperLetters) : UpperLetters[i] = c

\* c.lower() of one character.
LowerChar(c) ==
    IF IsUpperChar(c)
    THEN LowerLetters[CHOOSE i \in 1..Len(UpperLetters) : UpperLetters[i] = c]
    ELSE c

\* s.upper()
Upper(s) ==
    [i \in 1..Len(s) |->
         IF IsLowerChar(s[i])
         THEN UpperLetters[CHOOSE k \in 1..Len(LowerLetters) :
                               LowerLetters[k] = s[i]]
         ELSE s[i]]

\* s.isupper(): no lower-case letter and at least one upper-case letter.
IsUpper(s) ==
    /\ \A i \in 1..Len(s) : ~IsLowerChar(s[i])
    /\ \E i \in 1..Len(s) : IsUpperChar(s[i])

CountIsOne_Never(number) == FALSE

\* elif number == 1
CountIsOne(number) == number.v = 1

\* The branch of a word that ends in y or Y.
PluralOfY(word) ==
    \* re.match(r'[aeiou]', word[-2]): the lower-case vowels only
    IF word[Len(word) - 1] \in {"a", "e", "i", "o", "u"}
    THEN word \o <<"s">>
    ELSE SubSeq(word, 1, Len(word) - 1) \o <<"i", "e", "s">>

PluralOfS_AlwaysEs(word) == word \o <<"e", "s">>

\* The branch of a word that ends in s or S.
PluralOfS(word) ==
    IF LowerChar(word[Len(word) - 1]) = "e"
    THEN word
    ELSE word \o <<"e", "s">>

\* return_txt, before the case is restored.
PluralText(word) ==
    IF Len(word) <= 1 THEN word \o <<"s">>
    ELSE IF LowerChar(word[Len(word)]) = "y" THEN PluralOfY(word)
    ELSE IF LowerChar(word[Len(word)]) = "s" THEN PluralOfS(word)
    ELSE word \o <<"s">>

RestoreCase_Never(uppercase, return_txt) == return_txt

\* if uppercase: return return_txt.upper()
RestoreCase(uppercase, return_txt) ==
    IF uppercase THEN Upper(return_txt) ELSE return_txt

\* pluralize(word, number): word and number are typed values.
Pluralize(word_arg, number) ==
    LET word == IF word_arg.t = "int" THEN Str(IntToStr(word_arg.v))
                ELSE word_arg
    IN  IF word.t /= "str" THEN Return(word)
        ELSE IF number.t /= "int" THEN Return(word)
        ELSE IF CountIsOne(number) THEN Return(word)
        ELSE Return(Str(RestoreCase(IsUpper(word.v), PluralText(word.v))))

---------------------------------------------------------------------------
(* text.expand_range: the returned list holds plain integers.              *)

DigitChars == <<"0", "1", "2", "3", "4", "5", "6", "7", "8", "9">>

IsDigit(c) == \E i \in 1..Len(DigitChars) : DigitChars[i] = c

RECURSIVE DigitsValue(_)
DigitsValue(s) ==
    IF Len(s) = 0 THEN 0
    ELSE DigitsValue(SubSeq(s, 1, Len(s) - 1)) * 10
             + (CHOOSE i \in 1..Len(DigitChars) : DigitChars[i] = s[Len(s)]) - 1

\* int(s) of a string without sign or underscore: the blanks around it are
\* dropped and what is left must be one or more digits.
ParseInt(s) ==
    LET body == Strip(s)
    IN  IF Len(body) > 0 /\ \A i \in 1..Len(body) : IsDigit(body[i])
        THEN Return(Int_(DigitsValue(body)))
        ELSE Raise("ValueError")

\* sorted(xs), by insertion into the sorted prefix.
InsertSorted(xs, x) ==
    LET k == Cardinality({i \in 1..Len(xs) : xs[i] <= x})
    IN  SubSeq(xs, 1, k) \o <<x>> \o SubSeq(xs, k + 1, Len(xs))

RECURSIVE Sorted(_)
Sorted(xs) ==
    IF Len(xs) = 0 THEN <<>>
    ELSE InsertSorted(Sorted(SubSeq(xs, 1, Len(xs) - 1)), xs[Len(xs)])

RangeBounds_NoSwap(start_num, end_num) == <<start_num, end_num>>

\* if start_num > end_num: the two are exchanged.
RangeBounds(start_num, end_num) ==
    IF start_num > end_num
    THEN <<end_num, start_num>>
    ELSE <<start_num, end_num>>

\* The numbers one non-empty range_str appends to ranges, or the exception.
ExpandToken(range_str) ==
    LET range_nums == Split(range_str, "-")
        first == ParseInt(range_nums[1])
    IN  IF first.kind = "raise" THEN first
        ELSE IF Len(range_nums) < 2 THEN Return(List(<<first.val.v>>))
        ELSE LET second == ParseInt(range_nums[2])
             IN  IF second.kind = "raise" THEN second
                 ELSE LET bounds == RangeBounds(first.val.v, second.val.v)
                      \* range(bounds[1], bounds[2] + 1)
                      IN  Return(List([i \in 1..Max(bounds[2] + 1 - bounds[1], 0)
                                          |-> bounds[1] + i - 1]))

\* for range_str in ranges_str.split(","): ...; return sorted(ranges)
RECURSIVE ExpandTokens(_, _, _)
ExpandTokens(range_strs, i, ranges) ==
    IF i > Len(range_strs) THEN Return(List(Sorted(ranges)))
    ELSE IF Len(range_strs[i]) = 0
    THEN ExpandTokens(range_strs, i + 1, ranges)
    ELSE LET expanded == ExpandToken(range_strs[i])
         IN  IF expanded.kind = "raise" THEN expanded
             ELSE ExpandTokens(range_strs, i + 1, ranges \o expanded.val.v)

\* expand_range(ranges_str): len() of an int or of None is a TypeError.
ExpandRange(ranges_str) ==
    IF Truthy(ranges_str) /\ ranges_str.t = "int" THEN Return(ranges_str)
    ELSE IF ranges_str.t /= "str" THEN Raise("TypeError")
    ELSE IF Len(ranges_str.v) = 0 THEN ReturnNone
    ELSE ExpandTokens(Split(ranges_str.v, ","), 1, <<>>)

---------------------------------------------------------------------------
(* text.number_commas                                                      *)

\* The text that a pattern ending in $ matches: $ also matches just before
\* one newline that ends the string.
BeforeDollar(s) ==
    IF Len(s) > 0 /\ s[Len(s)] = NL THEN SubSeq(s, 1, Len(s) - 1) ELSE s

\* The text after an optional leading minus sign.
Unsigned(s) == IF Len(s) > 0 /\ s[1] = "-" THEN Tail(s) ELSE s

AllDigits(s) == Len(s) > 0 /\ \A i \in 1..Len(s) : IsDigit(s[i])

\* re.match(r'^-?\d+$', number)
MatchesInt(s) == AllDigits(Unsigned(BeforeDollar(s)))

\* The position of the decimal point of a text that holds exactly one.
PointAt(s) == CHOOSE i \in 1..Len(s) : s[i] = "."

\* re.match(r'^-?\d+\.\d+$', number)
MatchesFloat(s) ==
    LET body == Unsigned(BeforeDollar(s))
    IN  /\ Cardinality({i \in 1..Len(body) : body[i] = "."}) = 1
        /\ AllDigits(SubSeq(body, 1, PointAt(body) - 1))
        /\ AllDigits(SubSeq(body, PointAt(body) + 1, Len(body)))

\* int(s) of a text that MatchesInt accepts.
IntOfText(s) ==
    LET body == Strip(s)
    IN  IF body[1] = "-"
        THEN 0 - DigitsValue(Tail(body))
        ELSE DigitsValue(body)

GroupDigits_None(digits) == digits

\* The thousands grouping of "{:,}": a comma before every three digits
\* counted from the right.
RECURSIVE GroupDigits(_)
GroupDigits(digits) ==
    IF Len(digits) <= 3 THEN digits
    ELSE GroupDigits(SubSeq(digits, 1, Len(digits) - 3)) \o <<",">>
             \o SubSeq(digits, Len(digits) - 2, Len(digits))

\* "{:,}".format(n) of an int.
FormatInt(n) ==
    IF n < 0 THEN <<"-">> \o GroupDigits(Digits(0 - n))
    ELSE GroupDigits(Digits(n))

RECURSIVE DropTrailingZeros(_)
DropTrailingZeros(digits) ==
    IF Len(digits) > 1 /\ digits[Len(digits)] = "0"
    THEN DropTrailingZeros(SubSeq(digits, 1, Len(digits) - 1))
    ELSE digits

\* "{:,}".format(float(s)) of a text that MatchesFloat accepts, for a value
\* that Python writes in positional notation (under sixteen digits, at most
\* four zeros right after the point): the sign is kept, -0.0 included.
FormatFloatOfText(s) ==
    LET body == Strip(s)
        digits == Unsigned(body)
        whole == SubSeq(digits, 1, PointAt(digits) - 1)
        fraction == SubSeq(digits, PointAt(digits) + 1, Len(digits))
    IN  (IF body[1] = "-" THEN <<"-">> ELSE <<>>)
            \o GroupDigits(Digits(DigitsValue(whole)))
            \o <<".">> \o DropTrailingZeros(fraction)

\* number_commas(number)
NumberCommas(number) ==
    IF number.t = "str"
    THEN IF MatchesInt(number.v)
         THEN Return(Str(FormatInt(IntOfText(number.v))))
         ELSE IF MatchesFloat(number.v)
         THEN Return(Str(FormatFloatOfText(number.v)))
         ELSE Return(number)
    ELSE IF number.t /= "int" THEN Return(number)
    ELSE Return(Str(FormatInt(number.v)))

---------------------------------------------------------------------------
(* datetime.time_breakdown and datetime.run_time.  A number of seconds is  *)
(* a typed value: an int, or a float with a whole value (the clock).       *)

\* str(x) of a number: a whole float is written with ".0".
NumToStr(x) ==
    IF x.t = "float" THEN IntToStr(x.v) \o <<".", "0">> ELSE IntToStr(x.v)

\* sep.join(parts)
RECURSIVE Join(_, _)
Join(parts, sep) ==
    IF Len(parts) = 0 THEN <<>>
    ELSE IF Len(parts) = 1 THEN parts[1]
    ELSE parts[1] \o sep \o Join(Tail(parts), sep)

Units == <<86400, 3600, 60>>

\* if seconds > unit_seconds
ExceedsUnit(seconds, unit_seconds) == seconds > unit_seconds

\* The loop of time_breakdown over the units, then values.append(seconds).
RECURSIVE BreakdownUnits(_, _, _)
BreakdownUnits(values, seconds, i) ==
    IF i > Len(Units) THEN Append(values, seconds)
    ELSE IF ExceedsUnit(seconds.v, Units[i])
    THEN BreakdownUnits(Append(values, Int_(seconds.v \div Units[i])),
                        Int_(seconds.v % Units[i]), i + 1)
    ELSE BreakdownUnits(Append(values, Int_(0)), seconds, i + 1)

\* time_breakdown(seconds): the list [days, hours, minutes, seconds].
TimeBreakdown(seconds) == BreakdownUnits(<<>>, seconds, 1)

\* The labels "day", "hour", "minute", "second".
Labels ==
    <<(<<"d", "a", "y">>), <<"h", "o", "u", "r">>,
      <<"m", "i", "n", "u", "t", "e">>, <<"s", "e", "c", "o", "n", "d">>>>

\* return_lables and return_values of run_time before they are formatted.
RunTimeParts(delta_time, short) ==
    LET broken == TimeBreakdown(delta_time)
        days == broken[1]
        hours == broken[2]
        minutes == broken[3]
        with_days ==
            IF days.v /= 0
            THEN [lables |-> <<Labels[1]>>, values |-> <<days>>]
            ELSE [lables |-> <<>>, values |-> <<>>]
        with_hours ==
            IF hours.v /= 0
            THEN [lables |-> Append(with_days.lables, Labels[2]),
                  values |-> Append(with_days.values, hours)]
            ELSE IF short /\ Len(with_days.values) > 0
            THEN [lables |-> with_days.lables,
                  values |-> Append(with_days.values, Int_(0))]
            ELSE with_days
        with_minutes ==
            IF minutes.v /= 0
            THEN [lables |-> Append(with_hours.lables, Labels[3]),
                  values |-> Append(with_hours.values, minutes)]
            ELSE IF short
            THEN [lables |-> with_hours.lables,
                  values |-> Append(with_hours.values, Int_(0))]
            ELSE with_hours
        seconds ==
            IF Len(with_minutes.values) > 0 /\ ~short
            THEN Int_(broken[4].v)
            ELSE broken[4]
    IN  [lables |-> Append(with_minutes.lables, Labels[4]),
         values |-> Append(with_minutes.values, seconds)]

\* run_time(delta_time, short); elapsed is time.time() - start_time, read
\* when delta_time is None or zero.
RunTime(delta_time, short, elapsed) ==
    LET delta == IF delta_time.t = "NoneType" \/ delta_time.v = 0
                 THEN [t |-> "float", v |-> elapsed]
                 ELSE delta_time
        parts == RunTimeParts(delta, short)
    IN  IF short
        THEN Return(Str(Join([i \in 1..Len(parts.values) |->
                                  \* str(...).rjust(2, '0')
                                  Repeat("0", 2 - Len(NumToStr(parts.values[i])))
                                      \o NumToStr(parts.values[i])],
                             <<":">>)))
        ELSE Return(Str(Join([i \in 1..Len(parts.lables) |->
                                  NumToStr(parts.values[i]) \o <<" ">>
                                      \o Pluralize(Str(parts.lables[i]),
                                                   parts.values[i]).val.v],
                             <<",", " ">>)))

---------------------------------------------------------------------------
(* db.connect: the resolution of the connection options.  A dict is a      *)
(* function from the option names to values; Missing marks an absent key.  *)

PyTrue == [t |-> "bool", v |-> TRUE]

Missing == [t |-> "missing", v |-> <<>>]

IsNone(x) == x.t = "NoneType"

\* The keys of the dicts self.options and conf["database"].
EmptyDict ==
    [name \in {"host", "database", "user", "passwd", "ssl", "ssl-ca",
               "ssl-cert", "ssl-key", "autocommit", "connect-timeout",
               "connection-timeout"} |-> Missing]

\* The list options of __init__: name, passed, cli, required, default.
Options(passed, cli) ==
    <<[name |-> "host", passed |-> passed.host, cli |-> cli.db_host,
       required |-> TRUE, default |-> PyNone],
      [name |-> "database", passed |-> passed.database, cli |-> cli.db_name,
       required |-> TRUE, default |-> PyNone],
      [name |-> "user", passed |-> passed.user, cli |-> cli.db_user,
       required |-> TRUE, default |-> PyNone],
      [name |-> "passwd", passed |-> passed.passwd, cli |-> cli.db_passwd,
       required |-> TRUE, default |-> PyNone],
      [name |-> "ssl", passed |-> passed.ssl, cli |-> cli.db_ssl,
       required |-> FALSE, default |-> PyFalse],
      [name |-> "ssl-ca", passed |-> passed.ssl_ca, cli |-> cli.db_ssl_ca,
       required |-> FALSE, default |-> PyNone],
      [name |-> "ssl-cert", passed |-> passed.ssl_cert,
       cli |-> cli.db_ssl_cert, required |-> FALSE, default |-> PyNone],
      [name |-> "ssl-key", passed |-> passed.ssl_key, cli |-> cli.db_ssl_key,
       required |-> FALSE, default |-> PyNone],
      [name |-> "autocommit", passed |-> passed.autocommit, cli |-> PyNone,
       required |-> FALSE, default |-> PyFalse],
      [name |-> "connect-timeout", passed |-> passed.connect_timeout,
       cli |-> PyNone, required |-> TRUE, default |-> PyNone]>>

\* One round of the loop of _check_opts: the dict self.options and the
\* exception raised, if any.
CheckOpt(st, option, conf) ==
    IF st.exc /= "" THEN st
    ELSE IF ~IsNone(option.passed)
    THEN [st EXCEPT !.options[option.name] = option.passed]
    ELSE IF ~IsNone(option.cli)
    THEN [st EXCEPT !.options[option.name] = option.cli]
    ELSE IF conf[option.name] /= Missing
    THEN [st EXCEPT !.options[option.name] = conf[option.name]]
    ELSE IF ~IsNone(option.default)
    THEN [st EXCEPT !.options[option.name] = option.default]
    ELSE IF option.required
    THEN [st EXCEPT !.exc = "ValueError"]
    ELSE st

RECURSIVE CheckOpts(_, _, _, _)
CheckOpts(st, options, i, conf) ==
    IF i > Len(options) THEN st
    ELSE CheckOpts(CheckOpt(st, options[i], conf), options, i + 1, conf)

\* connect.__init__ up to the call of pymysql.connect, which is outside the
\* repository and either connects or raises: connected chooses.  conf is
\* what yaml.safe_load returned: None, or a dict with or without the key
\* database.  The call is made with logging=False, so nothing is logged.
Connect(passed, cli, conf, connected) ==
    IF conf.kind = "None" THEN Raise("TypeError")
    ELSE
    LET db_conf == IF conf.kind = "database" THEN conf.database ELSE EmptyDict
        checked == CheckOpts([options |-> EmptyDict, exc |-> ""],
                             Options(passed, cli), 1, db_conf)
        options ==
            [checked.options EXCEPT
                 !["autocommit"] = passed.autocommit,
                 !["connection-timeout"] = passed.connect_timeout]
        connect_opts ==
            [host |-> options["host"],
             user |-> options["user"],
             password |-> options["passwd"],
             database |-> options["database"],
             autocommit |-> options["autocommit"],
             connect_timeout |-> options["connect-timeout"],
             ssl |-> IF Truthy(options["ssl"])
                     THEN [ca |-> options["ssl-ca"],
                           cert |-> options["ssl-cert"],
                           key |-> options["ssl-key"]]
                     ELSE Missing]
    IN  IF checked.exc /= "" THEN Raise(checked.exc)
        ELSE IF /\ Truthy(options["ssl"])
                /\ Missing \in {options["ssl-ca"], options["ssl-cert"],
                                options["ssl-key"]}
        THEN Raise("KeyError")
        ELSE IF ~connected THEN Raise("OperationalError")
        ELSE Return([options |-> options, connect_opts |-> connect_opts])

---------------------------------------------------------------------------
(* log: the level filter and the output of a message.  A file is a record  *)
(* [exists, lines]; a written line is a record [level, text], the          *)
(* timestamp in front of it left out.                                      *)

log_levels == <<"EMR", "ALR", "CRI", "ERR", "WRN", "LOG", "INF", "DBG">>

NoFile == [exists |-> FALSE, lines |-> <<>>]

\* out.write of lines to a file or stream.
WriteLines(file, lines) == [file EXCEPT !.lines = file.lines \o lines]

\* The level the CLI options select, in the order log_level tests them.
SelectedLevel(opts) ==
    IF opts.silent THEN -1
    ELSE IF opts.quiet THEN 4
    ELSE IF opts.log_info THEN 6
    ELSE IF opts.debug THEN 7
    ELSE opts.log_level

\* log_level(): the global _out_level and the files afterwards; the value
\* returned is _out_level.
LogLevel(opts, out_level, fs) ==
    IF Truthy(out_level) THEN [out_level |-> out_level, files |-> fs]
    ELSE [out_level |-> Int_(SelectedLevel(opts)),
          files |-> IF /\ Truthy(opts.log_file)
                       /\ fs.log_file.exists
                       /\ ~opts.log_append
                    THEN [fs EXCEPT !.log_file = NoFile]
                    ELSE fs]

\* The lines of one message as out.write puts them.
OutLinesOf(level, msg) ==
    LET split == Split(msg, NL)
    IN  [i \in 1..Len(split) |->
             [level |-> log_levels[level + 1], text |-> RStrip(split[i])]]

\* The lines of one message as syslog gets them.
SyslogLinesOf(level, msg) ==
    LET split == Split(msg, NL)
    IN  [i \in 1..Len(split) |-> [level |-> level, text |-> Strip(split[i])]]

\* _msg_out(level, msg) with syslog=False: the global _out_level and the
\* files and streams afterwards.
MsgOut(level, msg, opts, out_level, fs) ==
    LET checked == LogLevel(opts, out_level, fs)
        \* open(opts.log_file, "a"): the file exists from then on
        opened == IF Truthy(opts.log_file)
                  THEN [checked.files EXCEPT !.log_file.exists = TRUE]
                  ELSE checked.files
        out == IF Truthy(opts.log_file) THEN "log_file"
               ELSE IF opts.no_log_stderr \/ level >= 5 THEN "stdout"
               ELSE "stderr"
    IN  IF level > checked.out_level.v THEN checked
        ELSE [out_level |-> checked.out_level,
              files |-> IF opts.syslog
                        THEN [opened EXCEPT
                                  !.syslog = WriteLines(@, SyslogLinesOf(level, msg))]
                        ELSE [opened EXCEPT
                                  ![out] = WriteLines(@, OutLinesOf(level, msg))]]

---------------------------------------------------------------------------
(* The callers: the arguments are drawn, then the function is applied.     *)

RECURSIVE SeqsUpTo(_, _)
SeqsUpTo(S, n) ==
    IF n = 0 THEN {<<>>}
    ELSE LET shorter == SeqsUpTo(S, n - 1)
         IN  shorter \cup {Append(s, x) : s \in shorter, x \in S}

Texts == {Str(s) : s \in SeqsUpTo({"a", " ", NL}, MaxTextLen)} \cup {Int_(170)}

InitCenter ==
    /\ pc = "ready"
    /\ fn = "center"
    /\ \E text \in Texts, width \in 1..MaxWidth, wrap \in BOOLEAN :
           args = [text |-> text, width |-> width, wrap |-> wrap]
    /\ ret = NoCall
    /\ rows = <<>>
    /\ groups = <<>>
    /\ files = <<>>
    /\ procs = <<>>

CallCenter ==
    /\ pc = "ready"
    /\ fn = "center"
    /\ ret' = Center(args.text, args.width, args.wrap)
    /\ pc' = "done"
    /\ UNCHANGED <<files, procs, fn, args, rows, groups>>

SpecCenter == InitCenter /\ [][CallCenter]_vars

TableCells == {Str(<<>>), Str(<<"a", "b">>), Int_(-12)}

\* The tables (lists of rows of cells) of at most n rows and cells together.
RECURSIVE TablesUpTo(_)
TablesUpTo(n) ==
    IF n = 0 THEN {<<>>}
    ELSE {<<>>} \cup UNION {{<<row>> \o t : t \in TablesUpTo(n - 1 - Len(row))} :
                               row \in SeqsUpTo(TableCells, n - 1)}

InitTable ==
    /\ pc = "ready"
    /\ fn = "table"
    /\ \E table_rows \in TablesUpTo(MaxTableSize),
          title \in {PyNone, Str(<<"T">>), Str(<<"T", " ", "i", "t">>)},
          headings \in BOOLEAN :
           /\ args = [rows |-> table_rows, title |-> title, headings |-> headings]
           /\ rows = table_rows
    /\ ret = NoCall
    /\ groups = <<>>
    /\ files = <<>>
    /\ procs = <<>>

CallTable ==
    /\ pc = "ready"
    /\ fn = "table"
    /\ LET call == Table(rows, args.title, args.headings)
       IN  /\ ret' = call.ret
           /\ rows' = call.rows
    /\ pc' = "done"
    /\ UNCHANGED <<files, procs, fn, args, groups>>

SpecTable == InitTable /\ [][CallTable]_vars

InitSplit ==
    /\ pc = "ready"
    /\ fn = "table_split"
    /\ \E table_rows \in TablesUpTo(MaxTableSize), headings \in BOOLEAN,
          sections \in (-1)..MaxSections :
           /\ args = [rows |-> table_rows, headings |-> headings,
                      sections |-> sections]
           /\ rows = table_rows
    /\ ret = NoCall
    /\ groups = <<>>
    /\ files = <<>>
    /\ procs = <<>>

CallTableSplit ==
    /\ pc = "ready"
    /\ fn = "table_split"
    /\ LET call == TableSplit([i \in 1..Len(rows) |-> List(rows[i])],
                              args.headings, args.sections)
       IN  /\ ret' = call.ret
           /\ groups' = call.table_rows
    /\ pc' = "done"
    /\ UNCHANGED <<files, procs, fn, args, rows>>

SpecSplit == InitSplit /\ [][CallTableSplit]_vars

\* The tables of cells of C, of at most n rows and cells together.
RECURSIVE TablesOf(_, _)
TablesOf(C, n) ==
    IF n = 0 THEN {<<>>}
    ELSE {<<>>} \cup UNION {{<<row>> \o t : t \in TablesOf(C, n - 1 - Len(row))} :
                               row \in SeqsUpTo(C, n - 1)}

InitCgiTable ==
    /\ pc = "ready"
    /\ fn = "cgi.table"
    /\ \E table_rows \in TablesOf({Str(<<"<">>), Str(<<"a", "&">>), Int_(7)},
                                   MaxTableSize),
          headings \in BOOLEAN :
           /\ args = [rows |-> table_rows, headings |-> headings]
           /\ rows = table_rows
    /\ ret = NoCall
    /\ groups = <<>>
    /\ files = <<>>
    /\ procs = <<>>

CallCgiTable ==
    /\ pc = "ready"
    /\ fn = "cgi.table"
    /\ ret' = CgiTable([i \in 1..Len(rows) |-> List(rows[i])], args.headings)
    /\ pc' = "done"
    /\ UNCHANGED <<files, procs, fn, args, rows, groups>>

SpecCgiTable == InitCgiTable /\ [][CallCgiTable]_vars

InitPluralize ==
    /\ pc = "ready"
    /\ fn = "pluralize"
    /\ \E word \in {Str(w) : w \in SeqsUpTo({"a", "e", "s", "t", "y",
                                              "A", "E", "S", "Y"}, MaxWordLen)}
                        \cup {Int_(5), Int_(-12), PyNone},
          number \in {Int_(0), Int_(1), Int_(2), PyNone} :
           args = [word |-> word, number |-> number]
    /\ ret = NoCall
    /\ rows = <<>>
    /\ groups = <<>>
    /\ files = <<>>
    /\ procs = <<>>

CallPluralize ==
    /\ pc = "ready"
    /\ fn = "pluralize"
    /\ ret' = Pluralize(args.word, args.number)
    /\ pc' = "done"
    /\ UNCHANGED <<files, procs, fn, args, rows, groups>>

SpecPluralize == InitPluralize /\ [][CallPluralize]_vars

\* The tokens an expression is written from: a number, a pair, nothing, or
\* a text that is none of these.
Pair(a, b) ==
    [kind |-> "pair", a |-> a, b |-> b,
     text |-> IntToStr(a) \o <<"-">> \o IntToStr(b)]

\* The tokens between the commas: a single number, a pair, the empty
\* token, and texts that are neither.
Tokens ==
    {[kind |-> "single", a |-> n, b |-> n, text |-> IntToStr(n)] :
         n \in 0..MaxRangeNum \cup {11}}
        \cup {Pair(a, b) : a, b \in 0..MaxRangeNum}
        \cup {[kind |-> "empty", a |-> 0, b |-> 0, text |-> <<>>]}
        \cup {[kind |-> "other", a |-> 0, b |-> 0, text |-> text] :
                  text \in {<<"x">>, <<"3", "-">>, <<"-", "3">>,
                            <<"1", "-", "x">>, <<"1", "-", "2", "-", "3">>,
                            <<" ", "2">>}}

\* ",".join of the texts of the tokens.
RECURSIVE Expression(_)
Expression(tokens) ==
    IF Len(tokens) = 0 THEN <<>>
    ELSE IF Len(tokens) = 1 THEN tokens[1].text
    ELSE tokens[1].text \o <<",">> \o Expression(Tail(tokens))

InitExpand ==
    /\ pc = "ready"
    /\ fn = "expand_range"
    /\ \/ \E tokens \in SeqsUpTo(Tokens, MaxTokens) :
              args = [ranges_str |-> Str(Expression(tokens)),
                      tokens |-> tokens]
       \/ \E x \in {Int_(0), Int_(5), Int_(-2), PyNone} :
              args = [ranges_str |-> x, tokens |-> <<>>]
    /\ ret = NoCall
    /\ rows = <<>>
    /\ groups = <<>>
    /\ files = <<>>
    /\ procs = <<>>

CallExpandRange ==
    /\ pc = "ready"
    /\ fn = "expand_range"
    /\ ret' = ExpandRange(args.ranges_str)
    /\ pc' = "done"
    /\ UNCHANGED <<files, procs, fn, args, rows, groups>>

SpecExpand == InitExpand /\ [][CallExpandRange]_vars

InitNumber ==
    /\ pc = "ready"
    /\ fn = "number_commas"
    /\ \E number \in
              {Str(n) : n \in SeqsUpTo({"0", "1", "-", ".", NL}, MaxNumberLen)}
                  \cup {Int_(n) : n \in {0, 7, -12, 999, 1000, -1000, 123456,
                                          1000000, -1234567}}
                  \cup {PyNone} :
           args = [number |-> number]
    /\ ret = NoCall
    /\ rows = <<>>
    /\ groups = <<>>
    /\ files = <<>>
    /\ procs = <<>>

CallNumberCommas ==
    /\ pc = "ready"
    /\ fn = "number_commas"
    /\ ret' = NumberCommas(args.number)
    /\ pc' = "done"
    /\ UNCHANGED <<files, procs, fn, args, rows, groups>>

SpecNumber == InitNumber /\ [][CallNumberCommas]_vars

Seconds ==
    (0..MaxSeconds)
        \cup {3599, 3600, 3601, 7200, 86399, 86400, 86401, 90061, 176461}

InitTimeBreakdown ==
    /\ pc = "ready"
    /\ fn = "time_breakdown"
    /\ \E seconds \in Seconds : args = [seconds |-> Int_(seconds)]
    /\ ret = NoCall
    /\ rows = <<>>
    /\ groups = <<>>
    /\ files = <<>>
    /\ procs = <<>>

CallTimeBreakdown ==
    /\ pc = "ready"
    /\ fn = "time_breakdown"
    /\ ret' = Return(List(TimeBreakdown(args.seconds)))
    /\ pc' = "done"
    /\ UNCHANGED <<files, procs, fn, args, rows, groups>>

InitRunTime ==
    /\ pc = "ready"
    /\ fn = "run_time"
    /\ \E short \in BOOLEAN :
           \/ \E seconds \in Seconds \ {0} :
                  args = [delta_time |-> Int_(seconds), short |-> short,
                          elapsed |-> 0]
           \/ \E delta_time \in {PyNone, Int_(0)}, elapsed \in {0, 12, 75} :
                  args = [delta_time |-> delta_time, short |-> short,
                          elapsed |-> elapsed]
    /\ ret = NoCall
    /\ rows = <<>>
    /\ groups = <<>>
    /\ files = <<>>
    /\ procs = <<>>

CallRunTime ==
    /\ pc = "ready"
    /\ fn = "run_time"
    /\ ret' = RunTime(args.delta_time, args.short, args.elapsed)
    /\ pc' = "done"
    /\ UNCHANGED <<files, procs, fn, args, rows, groups>>

SpecDatetime ==
    (InitTimeBreakdown \/ InitRunTime)
        /\ [][CallTimeBreakdown \/ CallRunTime]_vars

\* What a string option is given as: by the caller, on the command line,
\* in the configuration file.
\* What yaml.safe_load returns: a dict with the section database, whose
\* texts are "f", a dict without it, or None.
Confs ==
    {[kind |-> "database",
      database |-> [EmptyDict EXCEPT !["host"] = host, !["ssl"] = ssl,
                                     !["ssl-ca"] = ssl_file,
                                     !["ssl-cert"] = ssl_file,
                                     !["ssl-key"] = ssl_file]] :
         host \in {Missing, Str(<<"f">>)}, ssl \in {Missing, PyTrue, PyFalse},
         ssl_file \in {Missing, Str(<<"f">>)}}
        \cup {[kind |-> kind, database |-> EmptyDict] : kind \in {"other", "None"}}

InitConnect ==
    /\ pc = "ready"
    /\ fn = "connect"
    \* The arguments of connect(): host and the three ssl files vary, the
    \* other texts are passed by the caller as "p".  The parsed command
    \* line: a text option is None unless given (as "c"), and the store_true
    \* option --db-ssl is False unless given.
    /\ \E host \in {PyNone, Str(<<"p">>)}, ssl \in {PyNone, PyTrue, PyFalse},
          ssl_file \in {PyNone, Str(<<"p">>)},
          connect_timeout \in {Int_(10), PyNone},
          db_host \in {PyNone, Str(<<"c">>)}, db_ssl \in {PyTrue, PyFalse},
          db_ssl_file \in {PyNone, Str(<<"c">>)}, conf \in Confs :
           args = [passed |->
                       [host |-> host, database |-> Str(<<"p">>),
                        user |-> Str(<<"p">>), passwd |-> Str(<<"p">>),
                        ssl |-> ssl, ssl_ca |-> ssl_file,
                        ssl_cert |-> ssl_file, ssl_key |-> ssl_file,
                        autocommit |-> PyFalse,
                        connect_timeout |-> connect_timeout,
                        logging |-> FALSE],
                   cli |->
                       [db_host |-> db_host, db_name |-> PyNone,
                        db_user |-> PyNone, db_passwd |-> PyNone,
                        db_ssl |-> db_ssl, db_ssl_ca |-> db_ssl_file,
                        db_ssl_cert |-> db_ssl_file,
                        db_ssl_key |-> db_ssl_file],
                   conf |-> conf]
    /\ ret = NoCall
    /\ rows = <<>>
    /\ groups = <<>>
    /\ files = <<>>
    /\ procs = <<>>

CallConnect ==
    /\ pc = "ready"
    /\ fn = "connect"
    /\ \E connected \in BOOLEAN :
           ret' = Connect(args.passed, args.cli, args.conf, connected)
    /\ pc' = "done"
    /\ UNCHANGED <<files, procs, fn, args, rows, groups>>

SpecConnect == InitConnect /\ [][CallConnect]_vars

---------------------------------------------------------------------------
(* A process that logs: the options are parsed once, then the functions    *)
(* emr .. dbg are called, MaxCalls times at most.                          *)

Levels == 0..7

LogOpts(debug, log_info, quiet, silent, log_level, log_file, log_append, no_log_stderr, syslog) ==
    [debug |-> debug, log_info |-> log_info, quiet |-> quiet,
     silent |-> silent, log_level |-> log_level, log_file |-> log_file,
     log_append |-> log_append, no_log_stderr |-> no_log_stderr,
     syslog |-> syslog]

\* The line an earlier run left in the log file.
OldLine == [level |-> "LOG", text |-> <<"o", "l", "d">>]

InitLog ==
    /\ pc = "running"
    /\ fn = "log"
    \* The command lines: the level switches in every combination, the log
    \* file with and without --log-append and --syslog, and --no-log-stderr.
    /\ args \in
           {LogOpts(debug, log_info, quiet, silent, log_level, PyNone, FALSE,
                    FALSE, FALSE) :
                debug \in BOOLEAN, log_info \in BOOLEAN, quiet \in BOOLEAN,
                silent \in BOOLEAN, log_level \in Levels}
               \cup {LogOpts(FALSE, FALSE, FALSE, FALSE, log_level,
                             Str(<<"l", "o", "g">>), log_append, FALSE, syslog) :
                         log_level \in Levels, log_append \in BOOLEAN,
                         syslog \in BOOLEAN}
               \cup {LogOpts(FALSE, FALSE, FALSE, FALSE, 7, PyNone, FALSE, TRUE,
                             syslog) : syslog \in BOOLEAN}
    /\ ret = NoCall
    /\ rows = <<>>
    /\ groups = <<>>
    /\ \E old \in BOOLEAN :
           /\ old => Truthy(args.log_file)
           /\ files = [log_file |-> IF old
                                    THEN [exists |-> TRUE, lines |-> <<OldLine>>]
                                    ELSE NoFile,
                       stdout |-> [exists |-> TRUE, lines |-> <<>>],
                       stderr |-> [exists |-> TRUE, lines |-> <<>>],
                       syslog |-> [exists |-> TRUE, lines |-> <<>>]]
    /\ procs = [out_level |-> PyFalse, calls |-> <<>>]

\* One of emr, alr, cri, err, wrn, log, inf, dbg: if msgs: _msg_out(level,
\* msgs).  The messages are not empty.
LogCall(level) ==
    /\ pc = "running"
    /\ fn = "log"
    /\ Len(procs.calls) < MaxCalls
    \* the first message of the run has two lines
    /\ LET k == Len(procs.calls) + 1
           msg == IF k = 1 THEN <<"a", " ", NL, " ", "b">>
                  ELSE <<"m">> \o Digits(k)
           done == MsgOut(level, msg, args, procs.out_level, files)
       IN  /\ files' = done.files
           /\ procs' = [out_level |-> done.out_level,
                        calls |-> Append(procs.calls,
                                         [level |-> level, msg |-> msg])]
    /\ UNCHANGED <<pc, fn, args, ret, rows, groups>>

\* emr, alr, cri, err, wrn, log, inf, dbg are the levels 0 .. 7.
NextLog == \E level \in Levels : LogCall(level)

SpecLog == InitLog /\ [][NextLog]_vars

---------------------------------------------------------------------------
(* file.lock and file.unlock: processes that share one lock file.  Every   *)
(* system call is a step of its own.  The file is a record [exists, inode, *)
(* content]: a process that has the file open writes to the inode it       *)
(* opened, which may no longer be the one the path names.                  *)

\* The processes that call lock(), by PID.
Callers == {1, 2}

\* The functions the module log defines; any other attribute of it raises
\* AttributeError.
LogFunctions ==
    {"emr", "alr", "cri", "err", "wrn", "log", "inf", "dbg", "log_level",
     "_msg_out"}

InitLock ==
    /\ pc = "running"
    /\ fn = "lock"
    /\ args = <<>>
    /\ ret = NoCall
    /\ rows = <<>>
    /\ groups = <<>>
    \* There is no lock file, or one left by a process that ended without
    \* removing it, whose PID is 3.
    /\ \E lock_file \in {[exists |-> FALSE, inode |-> 0, content |-> <<>>],
                          [exists |-> TRUE, inode |-> 0,
                           content |-> IntToStr(3)]} :
           files = [lock_file |-> lock_file, inodes |-> 0]
    /\ procs = [p \in Callers |->
                    [pc |-> "idle", calls |-> 0, file_pid |-> 0, handle |-> 0,
                     atexit |-> 0, holds |-> FALSE, found |-> "", exc |-> ""]]

\* The process p moves on; nothing else of the shared variables changes.
Step(p, new) ==
    /\ procs' = [procs EXCEPT ![p] = new]
    /\ UNCHANGED <<pc, fn, args, ret, rows, groups>>

\* An exception leaves lock(): the call has not returned normally.
Raised(proc, exc) == [proc EXCEPT !.pc = "raised", !.exc = exc]

\* lock() is called: pid = os.getpid().
CallLock(p) ==
    /\ fn = "lock"
    /\ procs[p].pc \in {"idle", "held"}
    /\ procs[p].calls < MaxLockCalls
    /\ Step(p, [procs[p] EXCEPT !.pc = "exists", !.calls = @ + 1,
                                !.found = "", !.exc = ""])
    /\ UNCHANGED files

\* if os.path.exists(lock_file)
CheckExists(p) ==
    /\ fn = "lock"
    /\ procs[p].pc = "exists"
    /\ Step(p, [procs[p] EXCEPT
                    !.pc = IF files.lock_file.exists THEN "read" ELSE "open"])
    /\ UNCHANGED files

\* open, read, close, int(file_pid.strip()) and the test file_pid == pid.
ReadPid(p) ==
    /\ fn = "lock"
    /\ procs[p].pc = "read"
    /\ LET parsed == ParseInt(Strip(files.lock_file.content))
       IN  Step(p, IF ~files.lock_file.exists
                   THEN Raised(procs[p], "FileNotFoundError")
                   ELSE IF parsed.kind = "raise"
                   THEN Raised(procs[p], parsed.exc)
                   ELSE IF parsed.val.v = p
                   THEN [procs[p] EXCEPT !.pc = "held", !.holds = TRUE,
                                         !.file_pid = parsed.val.v]
                   ELSE [procs[p] EXCEPT !.pc = "kill",
                                         !.file_pid = parsed.val.v])
    /\ UNCHANGED files

\* os.kill(file_pid, 0), then log.warn and os.remove when the process is
\* gone, log.error and quit(1) when it runs.
ProbePid(p) ==
    /\ fn = "lock"
    /\ procs[p].pc = "kill"
    \* os.kill(file_pid, 0) raises OSError unless the process exists
    /\ IF ~(procs[p].file_pid \in Callers
            /\ procs[procs[p].file_pid].pc /= "dead")
       THEN IF "warn" \notin LogFunctions
            THEN /\ Step(p, Raised([procs[p] EXCEPT !.found = "dead"],
                                   "AttributeError"))
                 /\ UNCHANGED files
            ELSE IF ~files.lock_file.exists
            THEN /\ Step(p, Raised([procs[p] EXCEPT !.found = "dead"],
                                   "FileNotFoundError"))
                 /\ UNCHANGED files
            ELSE /\ Step(p, [procs[p] EXCEPT !.found = "dead", !.pc = "open"])
                 /\ files' = [files EXCEPT !.lock_file.exists = FALSE,
                                           !.lock_file.content = <<>>]
       ELSE /\ Step(p, Raised([procs[p] EXCEPT !.found = "running"],
                              IF "error" \notin LogFunctions
                              THEN "AttributeError"
                              ELSE "SystemExit"))
            /\ UNCHANGED files

\* open(lock_file, "w"): the file is created, or emptied if it exists.
OpenLock(p) ==
    /\ fn = "lock"
    /\ procs[p].pc = "open"
    /\ LET inode == IF files.lock_file.exists THEN files.lock_file.inode
                    ELSE files.inodes + 1
       IN  /\ files' = [lock_file |-> [exists |-> TRUE, inode |-> inode,
                                       content |-> <<>>],
                        inodes |-> Max(files.inodes, inode)]
           /\ Step(p, [procs[p] EXCEPT !.pc = "write", !.handle = inode])

\* file_obj.write(str(pid)), the close that ends the with block,
\* atexit.register(unlock), and the return.
WritePid(p) ==
    /\ fn = "lock"
    /\ procs[p].pc = "write"
    /\ files' = IF /\ files.lock_file.exists
                   /\ files.lock_file.inode = procs[p].handle
                THEN [files EXCEPT !.lock_file.content = IntToStr(p)]
                ELSE files
    /\ Step(p, [procs[p] EXCEPT !.pc = "held", !.holds = TRUE,
                                !.atexit = @ + 1])

\* The process ends, normally or by the exception: the atexit handlers run.
Exit(p) ==
    /\ fn = "lock"
    /\ procs[p].pc \in {"held", "raised"}
    /\ Step(p, [procs[p] EXCEPT
                    !.pc = IF procs[p].atexit > 0 THEN "unlock" ELSE "dead",
                    !.holds = FALSE])
    /\ UNCHANGED files

\* One registered unlock has run.
Unlocked(proc) ==
    [proc EXCEPT !.atexit = @ - 1,
                 !.pc = IF proc.atexit > 1 THEN "unlock" ELSE "dead"]

\* unlock(): if os.path.exists(lock_file)
UnlockExists(p) ==
    /\ fn = "lock"
    /\ procs[p].pc = "unlock"
    /\ Step(p, IF files.lock_file.exists
               THEN [procs[p] EXCEPT !.pc = "remove"]
               ELSE Unlocked(procs[p]))
    /\ UNCHANGED files

\* unlock(): os.remove(lock_file); an exception of an atexit handler is
\* printed and the exit goes on.
UnlockRemove(p) ==
    /\ fn = "lock"
    /\ procs[p].pc = "remove"
    /\ files' = [files EXCEPT !.lock_file.exists = FALSE,
                              !.lock_file.content = <<>>]
    /\ Step(p, Unlocked(procs[p]))

NextLock ==
    \E p \in Callers :
        \/ CallLock(p) \/ CheckExists(p) \/ ReadPid(p) \/ ProbePid(p)
        \/ OpenLock(p) \/ WritePid(p) \/ Exit(p)
        \/ UnlockExists(p) \/ UnlockRemove(p)

SpecLock == InitLock /\ [][NextLock]_vars

Init ==
    \/ InitCenter \/ InitTable \/ InitSplit \/ InitCgiTable
    \/ InitPluralize \/ InitExpand \/ InitNumber
    \/ InitTimeBreakdown \/ InitRunTime \/ InitConnect
    \/ InitLog \/ InitLock

Next ==
    \/ CallCenter \/ CallTable \/ CallTableSplit \/ CallCgiTable
    \/ CallPluralize \/ CallExpandRange \/ CallNumberCommas
    \/ CallTimeBreakdown \/ CallRunTime \/ CallConnect
    \/ NextLog \/ NextLock

Spec == Init /\ [][Next]_vars

---------------------------------------------------------------------------
(* Properties of center.                                                   *)

\* The lines of a returned string.
OutLines(s) == Split(s, NL)

\* Whether word occurs in line as a contiguous run of characters.
Contains(line, word) ==
    \E k \in 0..(Len(line) - Len(word)) :
        SubSeq(line, k + 1, k + Len(word)) = word

CenterWrapDone ==
    pc = "done" /\ fn = "center" /\ args.wrap /\ ret.kind = "value"

\* The words of the text of a wrapping call.
ArgWords == Split(Replace(PyStr(args.text), NL, " "), " ")

(* C1: for every text and every width W >= 1, every line of the string     *)
(* center(text, W, wrap=True) returns has length <= W, and a word longer   *)
(* than W appears in no line whole.                                        *)
C1_WrappedLinesFitWidth ==
    CenterWrapDone =>
        LET lines == OutLines(ret.val)
        IN  /\ \A i \in 1..Len(lines) : Len(lines[i]) <= args.width
            /\ \A j \in 1..Len(ArgWords) :
                   Len(ArgWords[j]) > args.width =>
                       \A i \in 1..Len(lines) : ~Contains(lines[i], ArgWords[j])

\* A word longer than the width was force-split over three or more lines.
C1_Witness ==
    /\ CenterWrapDone
    /\ \E j \in 1..Len(ArgWords) : Len(ArgWords[j]) > args.width
    /\ Len(OutLines(ret.val)) >= 3
    /\ \E i \in 1..Len(OutLines(ret.val)) :
           Len(OutLines(ret.val)[i]) = args.width

\* floor(width/2 - length/2) spaces, then the line.
RECURSIVE PaddedLines(_, _, _)
PaddedLines(lines, i, width) ==
    IF i > Len(lines) THEN <<>>
    ELSE Spaces((width - Len(lines[i])) \div 2) \o lines[i] \o <<NL>>
             \o PaddedLines(lines, i + 1, width)

(* C2: in wrap mode every line of the result of center, not only the       *)
(* first, is floor(width/2 - length/2) spaces followed by the line's text, *)
(* the padding the wrap=False mode gives a line of that length.            *)
C2_WrappedLinesCentered ==
    CenterWrapDone =>
        ret.val = RStrip(PaddedLines(
                      WrapLines(Replace(PyStr(args.text), NL, " "), args.width),
                      1, args.width))

\* The words of a line: its non-empty pieces between spaces.
LineWords(line) == SelectSeq(Split(line, " "), LAMBDA w : Len(w) > 0)

\* The length of words joined by single spaces.
JoinedLen(words) ==
    IF Len(words) = 0 THEN 0
    ELSE SumSeq([k \in 1..Len(words) |-> Len(words[k])]) + Len(words) - 1

\* A wrapping call on words separated by single spaces, none longer than
\* the width.
SingleSpacedCall ==
    /\ CenterWrapDone
    /\ args.text.t = "str"
    /\ \A j \in 1..Len(Split(args.text.v, " ")) :
           /\ Len(Split(args.text.v, " ")[j]) \in 1..args.width
           /\ \A k \in 1..Len(Split(args.text.v, " ")[j]) :
                  Split(args.text.v, " ")[j][k] /= NL

(* C13: for words separated by single spaces, none longer than width,      *)
(* center wraps greedily: a line break stands before a word only when the  *)
(* line so far, one space and the word would exceed width, so no output    *)
(* line, the first included, could have held the first word of the next.   *)
C13_WrapIsGreedy ==
    SingleSpacedCall =>
        LET lines == OutLines(ret.val)
        IN  \A i \in 1..(Len(lines) - 1) :
                JoinedLen(LineWords(lines[i])) + 1
                    + Len(LineWords(lines[i + 1])[1]) > args.width

---------------------------------------------------------------------------
(* Properties of text.table.                                               *)

TableDone == pc = "done" /\ fn = "table"

RECURSIVE MaxRowLen(_)
MaxRowLen(table_rows) ==
    IF Len(table_rows) = 0 THEN 0
    ELSE Max(Len(table_rows[1]), MaxRowLen(Tail(table_rows)))

\* The greatest display length of a cell i of the rows, at least 1.
MaxCellLen(table_rows, i) ==
    LET lens == {1} \cup {Len(PyStr(table_rows[r][i])) :
                     r \in {q \in 1..Len(table_rows) : i <= Len(table_rows[q])}}
    IN  CHOOSE m \in lens : \A n \in lens : n <= m

\* The column widths a border line "+----+---+" shows.
BorderWidths(border) ==
    LET parts == Split(border, "+")
    IN  [i \in 1..(Len(parts) - 2) |-> Len(parts[i + 1]) - 2]

\* The closing border line of a rendered table.
LastBorder(txt) == OutLines(txt)[Len(OutLines(txt)) - 1]

(* C3: in every rendered table the width of column i, read from the        *)
(* border, is the greatest display length of the heading cell i (when      *)
(* there are headings) and of the cell i of every data row that has one,   *)
(* and at least 1.                                                         *)
C3_ColumnWidthIsMaxCellLength ==
    (TableDone /\ ret.kind = "value") =>
        LET widths == BorderWidths(LastBorder(ret.val))
        IN  /\ Len(widths) = MaxRowLen(args.rows)
            /\ \A i \in 1..Len(widths) : widths[i] = MaxCellLen(args.rows, i)

\* A table with headings, a first column as wide as its heading (an int)
\* and a second as wide as a data cell.
C3_Witness ==
    /\ TableDone
    /\ ret.kind = "value"
    /\ args.headings
    /\ Len(args.rows) = 2
    /\ args.rows[1] = <<Int_(-12), Str(<<>>)>>
    /\ args.rows[2] = <<Str(<<>>), Str(<<"a", "b">>)>>
    /\ BorderWidths(LastBorder(ret.val)) = <<3, 2>>

\* The lines of a rendered table below its title banner.
RECURSIVE DropTitleLines(_)
DropTitleLines(lines) ==
    IF Len(lines) > 0 /\ Len(lines[1]) > 0 /\ lines[1][1] = "|"
    THEN DropTitleLines(Tail(lines))
    ELSE lines

BelowBanner(txt, title) ==
    IF Truthy(title) THEN DropTitleLines(Tail(OutLines(txt))) ELSE OutLines(txt)

\* The rendered rows: the lines that start with "|".
RowLines(lines) == SelectSeq(lines, LAMBDA l : Len(l) > 0 /\ l[1] = "|")

\* The number of cells of a rendered row.
CellCount(line) == Len(SelectSeq(line, LAMBDA c : c = "|")) - 1

(* C4: for every input of text.table the column count is                   *)
(* max(len(headings), longest data row, 1), rendering completes without    *)
(* an error, and every heading and data row is rendered with that many     *)
(* cells, an empty row of a table without headings included.               *)
C4_EveryRowHasColumnCountCells ==
    (TableDone /\ (args.headings => Len(args.rows) > 0)) =>
        /\ ret.kind = "value"
        /\ LET row_lines == RowLines(BelowBanner(ret.val, args.title))
           IN  /\ Len(row_lines) = Len(args.rows)
               /\ \A r \in 1..Len(row_lines) :
                      CellCount(row_lines[r]) = Max(MaxRowLen(args.rows), 1)

(* C8: text.table on a table with zero columns (no headings row and no     *)
(* data rows) fails with an error and returns no rendered string.          *)
C8_ZeroColumnsFails ==
    (TableDone /\ ~args.headings /\ args.rows = <<>>) => ret.kind = "raise"

(* C9: after text.table returns, the caller's rows differ from their       *)
(* value before the call at most by the removal of row 0 when headings is  *)
(* true; every other row and every cell of it is unchanged.                *)
C9_RowsUnchangedButHeading ==
    (TableDone /\ ret.kind = "value") =>
        rows = IF args.headings THEN Tail(args.rows) ELSE args.rows

---------------------------------------------------------------------------
(* Properties of cgi.table_split.                                          *)

SplitDone == pc = "done" /\ fn = "table_split"

\* The data rows of a call, as list values.
DataRows ==
    LET skip == IF args.headings THEN 1 ELSE 0
    IN  [i \in 1..(Len(args.rows) - skip) |-> List(args.rows[i + skip])]

\* ceil(number of data rows / sections)
GroupSize == (Len(DataRows) + args.sections - 1) \div args.sections

\* The data rows of group g (1-based): a contiguous run of GroupSize rows.
GroupRows(g) ==
    LET first == (g - 1) * GroupSize + 1
        last == IF g * GroupSize < Len(DataRows) THEN g * GroupSize
                ELSE Len(DataRows)
    IN  SubSeq(DataRows, first, last)

\* A group without the headings row at its head.
GroupData(group) ==
    IF args.headings /\ Len(group) > 0 THEN Tail(group) ELSE group

SplitValidCall ==
    SplitDone /\ args.sections >= 1 /\ (args.headings => Len(args.rows) > 0)

(* C5: table_split with sections >= 1 puts the data rows (the rows left    *)
(* after the headings row) into contiguous groups of                       *)
(* ceil(data rows / sections) rows, in the original order, group 0 filled  *)
(* first, every data row in exactly one group.                             *)
C5_SplitGroupsAreContiguous ==
    SplitValidCall =>
        /\ ret.kind = "value"
        /\ Len(groups) = args.sections
        /\ \A g \in 1..Len(groups) : GroupData(groups[g]) = GroupRows(g)

(* C6: table_split with headings=True on a non-empty rows list completes,  *)
(* and every non-empty group starts with exactly one copy of rows[0].      *)
C6_EveryGroupStartsWithHeadings ==
    (SplitValidCall /\ args.headings) =>
        /\ ret.kind = "value"
        /\ \A g \in 1..Len(groups) :
               Len(groups[g]) > 0 =>
                   /\ groups[g][1] = List(args.rows[1])
                   /\ Len(groups[g]) = 1 + Len(GroupRows(g))

(* C7: table_split fails with an error, and returns no rendered string,    *)
(* for every call with sections <= 0, whatever the rows are.               *)
C7_NoSectionsFails ==
    (SplitDone /\ args.sections <= 0) => ret.kind = "raise"

---------------------------------------------------------------------------
(* Properties of cgi.table.                                                *)

CgiTableDone == pc = "done" /\ fn = "cgi.table" /\ ret.kind = "value"

RECURSIVE Flatten(_)
Flatten(table_rows) ==
    IF Len(table_rows) = 0 THEN <<>>
    ELSE table_rows[1] \o Flatten(Tail(table_rows))

IsCellOpen(x) == x \in {HeadingCellOpen, DataCellOpen}

\* The texts of the cell elements of a markup render, in order: what
\* stands between each cell's opening tag and the next closing tag.
CellTexts(out) ==
    LET opens == SelectSeq([i \in 1..Len(out) |-> i],
                           LAMBDA i : IsCellOpen(out[i]))
        CloseOf(i) == CHOOSE j \in (i + 1)..Len(out) :
                          /\ out[j] = CellClose
                          /\ \A k \in (i + 1)..(j - 1) : out[k] /= CellClose
    IN  [n \in 1..Len(opens) |-> SubSeq(out, opens[n] + 1, CloseOf(opens[n]) - 1)]

SpecialChars == {"<", ">", "&", "\"", "'"}

HasSpecial(text) == \E i \in 1..Len(text) : text[i] \in SpecialChars

(* C11 as stated: in the markup render the content of every cell is        *)
(* text-escaped; a value containing '<', '>', '&' or a quote appears only  *)
(* as its escaped entity.                                                  *)
C11_CellsAreEscaped ==
    CgiTableDone =>
        LET cells == Flatten(args.rows)
            texts == CellTexts(ret.val)
        IN  /\ Len(texts) = Len(cells)
            /\ \A n \in 1..Len(cells) : texts[n] = CgiEscape(PyFormat(cells[n]))

(* C11 as amended: the content of every cell is the cell's value formatted *)
(* with str and inserted verbatim, with no escaping; a value containing    *)
(* '<' or '&' appears in the output unchanged.                             *)
C11_CellsAreVerbatim ==
    CgiTableDone =>
        LET cells == Flatten(args.rows)
            texts == CellTexts(ret.val)
        IN  /\ Len(texts) = Len(cells)
            /\ \A n \in 1..Len(cells) : texts[n] = PyStr(cells[n])

\* A rendered table with a heading cell and a data cell that hold special
\* characters.
C11_Witness ==
    /\ CgiTableDone
    /\ args.headings
    /\ Len(args.rows) = 2
    /\ \E c \in 1..Len(args.rows[1]) : HasSpecial(PyStr(args.rows[1][c]))
    /\ \E c \in 1..Len(args.rows[2]) : HasSpecial(PyStr(args.rows[2][c]))
    /\ \E n \in 1..Len(CellTexts(ret.val)) : HasSpecial(CellTexts(ret.val)[n])

\* The number of cell elements of each row element of a markup render.
RowCellCounts(out) ==
    LET parts == Split(out, RowClose)
    IN  [r \in 1..(Len(parts) - 1) |->
            Len(SelectSeq(parts[r], LAMBDA x : IsCellOpen(x)))]

(* C12: in the markup render every row element, the heading row included,  *)
(* holds exactly column-count cell elements, the column count being the    *)
(* greatest row length over all rows; a shorter row is completed with      *)
(* empty cells.                                                            *)
C12_EveryMarkupRowHasColumnCountCells ==
    CgiTableDone =>
        LET counts == RowCellCounts(ret.val)
        IN  /\ Len(counts) = Len(args.rows)
            /\ \A r \in 1..Len(counts) : counts[r] = MaxRowLen(args.rows)

---------------------------------------------------------------------------
(* Properties of pluralize                                                 *)

PluralizeDone == pc = "done" /\ fn = "pluralize"

CountOneCall == PluralizeDone /\ args.number = Int_(1)

SameValue(x, y) == x.t = y.t /\ x.v = y.v

\* C14 (as stated): for every word w, a string or a number, pluralize(w, 1)
\* returns w itself, unchanged in value and in type.
C14_CountOneReturnsWordItself ==
    CountOneCall =>
        (ret.kind = "value" /\ SameValue(ret.val, args.word))

\* C14 (amended): pluralize(w, 1) returns a string w itself; of an integer
\* w it returns the decimal text str(w), a string and not the integer.
C14_CountOneReturnsWordAsText ==
    CountOneCall =>
        /\ ret.kind = "value"
        /\ args.word.t = "str" => SameValue(ret.val, args.word)
        /\ args.word.t = "int" =>
               SameValue(ret.val, Str(IntToStr(args.word.v)))

C14_Witness ==
    /\ CountOneCall
    /\ args.word = Int_(-12)
    /\ ret = Return(Str(<<"-", "1", "2">>))

\* A call that reaches the orthography rules: a string of two or more
\* characters and an integer count other than 1.
PluralCall ==
    /\ PluralizeDone
    /\ args.word.t = "str"
    /\ Len(args.word.v) >= 2
    /\ args.number.t = "int"
    /\ args.number.v /= 1

LastChar(word) == LowerChar(word[Len(word)])

BeforeLast(word) == LowerChar(word[Len(word) - 1])

\* The text the rules give, upper-cased in full when the word is all
\* upper-case (DAY gives DAYS, TEST gives TESTS).
InCaseOf(word, text) == IF IsUpper(word) THEN Upper(text) ELSE text

\* C15: a word of two or more characters that ends in y or Y, with an
\* integer count other than 1, gets an s appended when the character before
\* the y is a vowel in either case, and otherwise loses the y and gets ies.
C15_YRuleVowelInEitherCase ==
    (PluralCall /\ LastChar(args.word.v) = "y") =>
        LET word == args.word.v
            base == SubSeq(word, 1, Len(word) - 1)
        IN  /\ ret.kind = "value"
            /\ ret.val.t = "str"
            /\ ret.val.v =
                   IF BeforeLast(word) \in {"a", "e", "i", "o", "u"}
                   THEN InCaseOf(word, word \o <<"s">>)
                   ELSE InCaseOf(word, base \o <<"i", "e", "s">>)

\* C16: with a word of two or more characters and an integer count other
\* than 1, a word that ends in s or S is left unchanged when the character
\* before is e or E and gets es appended otherwise; a word that ends in
\* anything but y or s gets s appended.
C16_SRuleAndDefaultRule ==
    (PluralCall /\ LastChar(args.word.v) /= "y") =>
        LET word == args.word.v
        IN  /\ ret.kind = "value"
            /\ ret.val.t = "str"
            /\ ret.val.v =
                   IF LastChar(word) = "s"
                   THEN IF BeforeLast(word) = "e"
                        THEN word
                        ELSE InCaseOf(word, word \o <<"e", "s">>)
                   ELSE InCaseOf(word, word \o <<"s">>)

C16_Witness ==
    /\ PluralCall
    /\ args.word = Str(<<"t", "E", "s">>)
    /\ ret = Return(args.word)

\* C17: for a string word and an integer count the result is all upper-case
\* exactly when the word is, and the characters of a word that is not all
\* upper-case keep their case (the y that the ies rule drops aside).
C17_CaseClassIsKept ==
    (PluralizeDone /\ args.word.t = "str" /\ args.number.t = "int") =>
        LET word == args.word.v
        IN  /\ ret.kind = "value"
            /\ ret.val.t = "str"
            /\ IsUpper(ret.val.v) <=> IsUpper(word)
            /\ ~IsUpper(word) =>
                   /\ Len(ret.val.v) >= Len(word)
                   /\ \A i \in 1..Len(word) :
                          \/ ret.val.v[i] = word[i]
                          \/ i = Len(word) /\ LastChar(word) = "y"

C17_Witness ==
    /\ PluralizeDone
    /\ args.word = Str(<<"A", "S">>)
    /\ args.number = Int_(2)
    /\ ret = Return(Str(<<"A", "S", "E", "S">>))

---------------------------------------------------------------------------
(* Properties of expand_range                                              *)

ExpandDone == pc = "done" /\ fn = "expand_range"

\* A non-empty expression whose tokens are numbers, pairs or empty.
WellFormedCall ==
    /\ ExpandDone
    /\ args.ranges_str.t = "str"
    /\ Len(args.ranges_str.v) > 0
    /\ \A k \in 1..Len(args.tokens) :
           args.tokens[k].kind \in {"single", "pair", "empty"}

Min(a, b) == IF a <= b THEN a ELSE b

\* The token stands for the value v.
Covers(token, v) ==
    /\ token.kind \in {"single", "pair"}
    /\ Min(token.a, token.b) <= v
    /\ v <= Max(token.a, token.b)

Coverage(tokens, v) == Cardinality({k \in 1..Len(tokens) : Covers(tokens[k], v)})

Occurrences(xs, v) == Cardinality({i \in 1..Len(xs) : xs[i] = v})

\* C18: of an expression of comma-separated tokens, each a number n or a
\* pair a-b, expand_range returns the ascending list that holds every value
\* once for each token that covers it: n for a single token, the integers of
\* [min(a,b), max(a,b)] for a pair; empty tokens add nothing.
C18_ExpandsEveryTokenSorted ==
    WellFormedCall =>
        /\ ret.kind = "value"
        /\ ret.val.t = "list"
        /\ \A i \in 1..(Len(ret.val.v) - 1) : ret.val.v[i] <= ret.val.v[i + 1]
        /\ \A i \in 1..Len(ret.val.v) :
               Coverage(args.tokens, ret.val.v[i]) > 0
        /\ \A v \in 0..(MaxRangeNum + 11) :
               Occurrences(ret.val.v, v) = Coverage(args.tokens, v)

C18_Witness ==
    /\ WellFormedCall
    /\ args.tokens = <<Pair(3, 1), Pair(1, 2)>>
    /\ ret = Return(List(<<1, 1, 2, 2, 3>>))

\* C19: given an argument that is already an integer, 0 and the negative
\* integers included, expand_range returns that integer and does not raise.
C19_IntegerIsReturnedAsIs ==
    (ExpandDone /\ args.ranges_str.t = "int") => ret = Return(args.ranges_str)

\* C20: expand_range never raises: of the empty string or None it returns
\* None or an empty value, and of a malformed expression it returns the
\* expression unchanged or an empty value.
C20_NeverRaises ==
    (ExpandDone /\ args.ranges_str.t \in {"str", "NoneType"}) =>
        /\ ret.kind /= "raise"
        /\ (\/ args.ranges_str.t = "NoneType"
            \/ \E k \in 1..Len(args.tokens) : args.tokens[k].kind = "other")
               => \/ ret.kind = "None"
                  \/ ret.val.t = "list" /\ ret.val.v = <<>>
                  \/ ret.val = args.ranges_str

---------------------------------------------------------------------------
(* Properties of number_commas                                             *)

NumberDone == pc = "done" /\ fn = "number_commas"

\* The call is given an integer: an int, or a text of an optional minus
\* sign and digits.
IntegerCall ==
    /\ NumberDone
    /\ \/ args.number.t = "int"
       \/ args.number.t = "str" /\ AllDigits(Unsigned(args.number.v))

WithoutCommas(s) == SelectSeq(s, LAMBDA c : c /= ",")

\* The groups of digits between the commas, the sign left out.
DigitGroups(s) == Split(Unsigned(s), ",")

GroupsOfThree(s) ==
    LET grouped == DigitGroups(s)
    IN  /\ \A k \in 1..Len(grouped) : AllDigits(grouped[k])
        /\ Len(grouped[1]) \in 1..3
        /\ \A k \in 2..Len(grouped) : Len(grouped[k]) = 3

\* C21 (as stated): of an integer given as an int or as a text matching
\* ^-?\d+$ the result is the input's text with a comma every three digits
\* from the right: without the commas it is the input's text again.
C21_CommasKeepInputText ==
    IntegerCall =>
        /\ ret.kind = "value"
        /\ ret.val.t = "str"
        /\ WithoutCommas(ret.val.v) = PyStr(args.number)
        /\ GroupsOfThree(ret.val.v)

\* C21 (amended): the result is the decimal text of the integer's value,
\* str(int(input)), with a comma every three digits from the right: leading
\* zeros and the sign of a negative zero are not kept.
C21_CommasKeepIntegerValue ==
    IntegerCall =>
        LET value == IF args.number.t = "int" THEN args.number.v
                     ELSE IntOfText(args.number.v)
        IN  /\ ret.kind = "value"
            /\ ret.val.t = "str"
            /\ WithoutCommas(ret.val.v) = IntToStr(value)
            /\ GroupsOfThree(ret.val.v)

C21_Witness ==
    /\ IntegerCall
    /\ args.number = Str(<<"0", "1", "0", "0", "0">>)
    /\ ret = Return(Str(<<"1", ",", "0", "0", "0">>))

---------------------------------------------------------------------------
(* Properties of time_breakdown and run_time                               *)

BreakdownDone == pc = "done" /\ fn = "time_breakdown"

\* C25: of a non-negative integer number of seconds s, time_breakdown
\* returns integers (days, hours, minutes, seconds) that add up to s, with
\* hours under 24, minutes under 60 and seconds under 60.
C25_BreakdownIsNormalised ==
    (BreakdownDone /\ args.seconds.v >= 0) =>
        LET values == ret.val.v
        IN  /\ Len(values) = 4
            /\ \A i \in 1..4 : values[i].t = "int" /\ values[i].v >= 0
            /\ values[1].v * 86400 + values[2].v * 3600
                   + values[3].v * 60 + values[4].v = args.seconds.v
            /\ values[2].v < 24
            /\ values[3].v < 60
            /\ values[4].v < 60

\* The long-format call of run_time with a number of seconds of 1 or more.
LongRunTimeCall ==
    /\ pc = "done"
    /\ fn = "run_time"
    /\ ~args.short
    /\ args.delta_time.t = "int"
    /\ args.delta_time.v >= 1

\* "<value> <label>", the label in the plural unless the value is 1.
UnitText(value, label) ==
    IntToStr(value) \o <<" ">> \o label
        \o (IF value = 1 THEN <<>> ELSE <<"s">>)

\* The units that are not zero, in the order days, hours, minutes, and
\* then the seconds.
LongText(s) ==
    LET days == s \div 86400
        hours == (s % 86400) \div 3600
        minutes == (s % 3600) \div 60
        seconds == s % 60
    IN  Join((IF days /= 0 THEN <<UnitText(days, Labels[1])>> ELSE <<>>)
                 \o (IF hours /= 0 THEN <<UnitText(hours, Labels[2])>>
                     ELSE <<>>)
                 \o (IF minutes /= 0 THEN <<UnitText(minutes, Labels[3])>>
                     ELSE <<>>)
                 \o <<UnitText(seconds, Labels[4])>>,
             <<",", " ">>)

\* C26: the long format of run_time(s), s >= 1, lists in the order days,
\* hours, minutes exactly the units that are not zero, always ends with the
\* seconds, and writes a label in the singular exactly when its value is 1.
C26_LongFormatListsNonZeroUnits ==
    LongRunTimeCall =>
        (ret.kind = "value" /\ ret.val.v = LongText(args.delta_time.v))

---------------------------------------------------------------------------
(* The line lengths of text.table                                          *)

\* The lines of a rendered table; the text ends with a newline.
TableLines(txt) == SubSeq(OutLines(txt), 1, Len(OutLines(txt)) - 1)

\* C27: every line of the text that text.table returns (the top border of
\* the title, the title lines, the borders, the headings row, the data
\* rows) has the length sum(column widths) + 3 * (number of columns) + 1,
\* for a table whose cells and title hold no newline.
C27_EveryLineHasTableWidth ==
    (TableDone /\ ret.kind = "value") =>
        LET widths == BorderWidths(LastBorder(ret.val))
        IN  \A i \in 1..Len(TableLines(ret.val)) :
                Len(TableLines(ret.val)[i])
                    = SumSeq(widths) + 3 * Len(widths) + 1

---------------------------------------------------------------------------
(* table_split without headings                                            *)

\* C28: table_split with headings=False and sections >= 1 on a non-empty
\* rows list completes, and its groups hold exactly the input rows, each
\* once and in order: no extra row stands at the head of a group and no
\* row is rendered as a heading row.
C28_NoHeadingsKeepsOnlyTheRows ==
    (SplitDone /\ ~args.headings /\ args.sections >= 1 /\ Len(args.rows) > 0)
        => /\ ret.kind = "value"
           /\ Flatten(groups) = [i \in 1..Len(args.rows) |-> List(args.rows[i])]
           /\ \A i \in 1..Len(ret.val) : ret.val[i] /= HeadingRowOpen

---------------------------------------------------------------------------
(* Properties of db.connect                                                *)

ConnectDone == pc = "done" /\ fn = "connect"

\* Whether the option was given on the command line: a text option is then
\* not None, the switch --db-ssl is then True.
GivenOnCli(cli) == ~IsNone(cli) /\ (cli.t = "bool" => cli.v)

\* The value the check order gives: the function variable, the CLI option,
\* the configuration file, the default.
Resolved(option, conf) ==
    IF ~IsNone(option.passed) THEN option.passed
    ELSE IF GivenOnCli(option.cli) THEN option.cli
    ELSE IF conf[option.name] /= Missing THEN conf[option.name]
    ELSE IF ~IsNone(option.default) THEN option.default
    ELSE Missing

\* C24: every connection option gets the value passed to connect() when it
\* is not None, else the CLI option when it was given on the command line,
\* else the value of the configuration file, else the default; so an ssl
\* value of the configuration file is used when ssl is not passed and
\* --db-ssl is not given.
C24_OptionCheckOrder ==
    (ConnectDone /\ ret.kind = "value") =>
        LET options == Options(args.passed, args.cli)
            conf == IF args.conf.kind = "database" THEN args.conf.database
                    ELSE EmptyDict
        IN  \A i \in 1..Len(options) :
                ret.val.options[options[i].name] = Resolved(options[i], conf)

---------------------------------------------------------------------------
(* Properties of log                                                       *)

\* The process has made a log call, so the level has been worked out.
Logged == fn = "log" /\ Len(procs.calls) > 0

NothingWritten ==
    /\ files.log_file.lines \in {<<>>, <<OldLine>>}
    /\ files.stdout.lines = <<>>
    /\ files.stderr.lines = <<>>
    /\ files.syslog.lines = <<>>

\* C23: --debug overrides --log-info and --log-level: given without
\* --quiet or --silent it makes the level 7, with or without --log-info;
\* --quiet overrides the three (level 4); --silent suppresses every message.
C23_DebugOverridesLogInfo ==
    Logged =>
        /\ args.silent => NothingWritten
        /\ (args.quiet /\ ~args.silent) => procs.out_level = Int_(4)
        /\ (args.debug /\ ~args.quiet /\ ~args.silent)
               => procs.out_level = Int_(7)

\* The lines of the calls of the run that pass the level, in call order.
RECURSIVE PassedLines(_, _)
PassedLines(calls, level) ==
    IF Len(calls) = 0 THEN <<>>
    ELSE (IF calls[1].level <= level
          THEN OutLinesOf(calls[1].level, calls[1].msg)
          ELSE <<>>) \o PassedLines(Tail(calls), level)

\* A run with --log-file, without --log-append, and with no other switch,
\* so that the level is --log-level.
FreshLogFileRun ==
    /\ Logged
    /\ Truthy(args.log_file)
    /\ ~args.log_append
    /\ ~args.syslog
    /\ ~(args.debug \/ args.log_info \/ args.quiet \/ args.silent)

\* C30: with --log-file and without --log-append the file of an earlier
\* run is removed once, before the first message: after any sequence of
\* log calls, for every --log-level of 0..7, the file holds every message
\* of the run that passed the level, in the order of the calls.
C30_LogFileHoldsTheRun ==
    FreshLogFileRun =>
        files.log_file.lines = PassedLines(procs.calls, args.log_level)

---------------------------------------------------------------------------
(* Properties of file.lock                                                 *)

Locking == fn = "lock"

\* The call of lock() by p has ended, by a return or by an exception.
LockEnded(p) == procs[p].pc \in {"held", "raised"}

\* C22: when the lock file holds the PID of a process that is no longer
\* running, lock() warns, replaces the lock file with one that holds the
\* caller's PID, and returns normally with the caller holding the lock.
C22_StaleLockIsOverridden ==
    Locking =>
        \A p \in Callers :
            (procs[p].found = "dead" /\ LockEnded(p)) =>
                /\ procs[p].exc = ""
                /\ procs[p].holds
                /\ (\A q \in Callers \ {p} : procs[q].pc = "idle")
                       => files.lock_file.content = IntToStr(p)

\* C29: under any interleaving of two live processes that call lock() on
\* the same lock file at most one returns normally: in no state have both
\* returned and both hold the lock.
C29_AtMostOneHoldsTheLock ==
    Locking =>
        \A p, q \in Callers :
            (procs[p].holds /\ procs[q].holds) => p = q

===========================================================================
